---- MODULE Spec2Model ----
(***************************************************************************)
(* Velo knowledge-base backend: the hybrid cache (backend/app/cache.py),   *)
(* the RAG orchestrator and the vector indexing tasks                       *)
(* (backend/app/services/agent_service.py) and the document writes that    *)
(* enqueue those tasks (backend/app/services/document_service.py).           *)
(*                                                                         *)
(* The specifications share the variables:                                 *)
(*   SpecCache       CacheManager driven by arbitrary get/set/delete calls  *)
(*   SpecCompletion  POST /completion and llm_service.complete_text         *)
(*   SpecRag         AgentService.rag_qa calls interleaving on the loop     *)
(*   SpecChat        POST /chat in RAG mode (rag_qa) and plain mode (ask_ai)*)
(*   SpecIndex       document writes and their background index tasks       *)
(*   SpecWrites      document writes against a cache holding RAG answers    *)
(*   SpecBoot        lifespan startup (init_redis, init_db), then the cache  *)
(*   SpecStore       worker threads racing through get_vector_store()       *)
(*   SpecSources     the miss path of rag_qa over an index of several chunks*)
(*   SpecRetry       enqueued index tasks run to their end, fairly scheduled*)
(*   SpecList        the /documents routes: writes, reads and the list      *)
(***************************************************************************)
EXTENDS Integers, Sequences, FiniteSets, TLC

\* ------------------------------------------------------------------ bounds
\* number of clock advances a behaviour may observe
MaxTicks == 3
\* rag_qa calls a behaviour of SpecRag makes
MaxCalls == 2
\* documents created and background tasks enqueued in a behaviour of SpecIndex
MaxDocs == 1
MaxTasks == 3
\* length of the raw outputs the inference endpoint returns
MaxLen == 3
\* worker threads of the dependency threadpool that resolve get_agent_service at once
MaxThreads == 3

\* keys, values and ttls the callers of SpecCache pass (ttl 0 stands for ex=None / ex=0):
\* every value and ttl under "k1", and one more key to share the dictionaries with it
CacheKeys == {"k1", "k2"}
CacheValues == {<<"v1">>, <<"v2">>}
CacheTTLs == {0, 1, 2}
CacheSets == ({"k1"} \X CacheValues \X CacheTTLs) \cup {<<"k2", <<"v1">>, 0>>}

\* Python's None as a cache value / return value; stored values are non-empty tuples
None == <<>>
\* float('inf') as an expiry
Inf == -1

VARIABLES
    phase,          \* "boot" (constructed), "init_db" (lifespan between init_redis and
                    \* init_db), "serving" (after lifespan startup), "closed"
    use_redis,      \* CacheManager.use_redis
    redis,          \* CacheManager.redis is a client (TRUE) or None (FALSE)
    memory_cache,   \* CacheManager._memory_cache: key -> [value, expire_at]
    remote,         \* the Redis server's keyspace: key -> [value, expire_at]
    now,            \* time.time(), in seconds since the process started
    ticks,          \* clock advances so far
    lastOp,         \* history: the last completed CacheManager call of SpecCache
    lastSet,        \* history: per key, the last completed set not followed by a delete
    remoteEverOK,   \* history: some remote get/set/delete call has succeeded
    calls,          \* the rag_qa coroutines: position, locals and return value of each
    searchEverOK,   \* history: some similarity_search has returned
    llmEverOK,      \* history: some llm.ainvoke has returned
    vector_store,   \* the Chroma collection: a set of stored chunks
    api_key_ok,     \* settings.OPENAI_API_KEY is set and is not the placeholder
    docs,           \* the documents table: id -> [title, content, is_active]
    tasks,          \* the background tasks enqueued by the document writes
    delRan,         \* history: per document, delete_document_index ran and no add landed since
    completion,     \* the POST /completion request being served: position, inputs, answer
    boot,           \* history: how init_redis and init_db ended during lifespan startup
    vector_store_instance,  \* agent_service._vector_store_instance: 0 is None, n the n-th Chroma
    constructed,    \* history: Chroma(...) constructor calls so far
    workers,        \* the threads resolving get_agent_service: position and return value
    req             \* history: the last /documents request that read the table, and its answer

cacheVars == <<phase, use_redis, redis, memory_cache, remote, now, ticks>>
histVars == <<lastOp, lastSet, remoteEverOK>>
ragVars == <<calls, searchEverOK, llmEverOK>>
indexVars == <<vector_store, api_key_ok, docs, tasks, delRan>>

bootVars == <<boot>>
storeVars == <<vector_store_instance, constructed, workers>>

docVars == <<req>>

apiVars == <<completion, bootVars, storeVars, docVars>>

vars == <<cacheVars, histVars, ragVars, indexVars, apiVars>>

\* ------------------------------------------------------------ dictionaries
EmptyMap == [x \in {} |-> None]
Put(f, k, e) == [x \in (DOMAIN f) \cup {k} |-> IF x = k THEN e ELSE f[x]]
Drop(f, k) == [x \in (DOMAIN f) \ {k} |-> f[x]]

\* ------------------------------------------------------------ CacheManager
\* the remote tier is tried: `if self.use_redis and self.redis`
remote_usable == use_redis /\ redis

\* what the Redis server answers to GET k (keys set with EX t live for t seconds)
remote_read(k) ==
    IF k \in DOMAIN remote
       /\ (remote[k].expire_at = Inf \/ now < remote[k].expire_at)
    THEN remote[k].value
    ELSE None

\* `expire_at and time.time() > expire_at`
memory_expired(k) ==
    /\ memory_cache[k].expire_at # 0
    /\ memory_cache[k].expire_at # Inf
    /\ now > memory_cache[k].expire_at

\* get, step 2: the value the fallback tier yields for k
memory_get(k) ==
    IF k \in DOMAIN memory_cache
    THEN IF memory_expired(k) THEN None ELSE memory_cache[k].value
    ELSE None

\* mutant: the expired entry is reported absent but left in the dictionary
memory_after_get_keeps(k) == memory_cache

\* get, step 2: an expired entry is deleted on the read that finds it
memory_after_get(k) ==
    IF k \in DOMAIN memory_cache /\ memory_expired(k)
    THEN Drop(memory_cache, k)
    ELSE memory_cache

\* mutant: no try/except around the remote read
get_result_propagates(k, ok) ==
    IF remote_usable
    THEN (IF ok THEN remote_read(k) ELSE <<"raise">>)
    ELSE memory_get(k)

\* get: the value returned; ok = the remote read did not raise
get_result(k, ok) ==
    IF remote_usable /\ ok THEN remote_read(k) ELSE memory_get(k)

\* get: _memory_cache afterwards
get_memory(k, ok) ==
    IF remote_usable /\ ok THEN memory_cache ELSE memory_after_get(k)

\* mutant: a ttl of zero is added to the clock like any other
expire_at_of_adds_zero(ex) == now + ex

\* `expire_at = (time.time() + ex) if ex else float('inf')`
expire_at_of(ex) == IF ex # 0 THEN now + ex ELSE Inf

\* set: the Redis keyspace afterwards; ok = the remote write did not raise
set_remote(k, v, ex, ok) ==
    IF remote_usable /\ ok
    THEN Put(remote, k, [value |-> v, expire_at |-> expire_at_of(ex)])
    ELSE remote

\* mutant: a failed remote write is swallowed without the write to memory
set_memory_skips_on_error(k, v, ex, ok) ==
    IF remote_usable
    THEN memory_cache
    ELSE Put(memory_cache, k, [value |-> v, expire_at |-> expire_at_of(ex)])

\* set: _memory_cache afterwards (the remote write returns early on success)
set_memory(k, v, ex, ok) ==
    IF remote_usable /\ ok
    THEN memory_cache
    ELSE Put(memory_cache, k, [value |-> v, expire_at |-> expire_at_of(ex)])

\* delete: the Redis keyspace afterwards; ok = the remote delete did not raise
delete_remote(k, ok) ==
    IF remote_usable /\ ok THEN Drop(remote, k) ELSE remote

\* mutant: the entry of the fallback tier is left in place
delete_memory_keeps(k) == memory_cache

\* delete: _memory_cache afterwards
delete_memory(k) == Drop(memory_cache, k)

\* ------------------------------------------------------------ vector store
\* a stored chunk: Chroma gives every added chunk a fresh id (here: the adding task and
\* the chunk's position); doc_id and source are the metadata index_document stamps
Chunk(t, i, d, title, text) ==
    [id |-> <<t, i>>, doc_id |-> d, source |-> title, page_content |-> text]

\* page contents are tuples of characters
TextX == <<"x">>
TextY == <<"y">>
TextZ == <<"z">>

Min(a, b) == IF a < b THEN a ELSE b

\* all sequences of n distinct elements of S
RECURSIVE Arrangements(_, _)
Arrangements(S, n) ==
    IF n = 0 THEN {<<>>}
    ELSE UNION {{<<x>> \o r : r \in Arrangements(S \ {x}, n - 1)} : x \in S}

\* similarity_search(query, k): the k nearest stored chunks, in an order the embedding
\* decides (any order is possible); fewer when the collection holds fewer
similarity_search(k) == Arrangements(vector_store, Min(k, Cardinality(vector_store)))

\* --------------------------------------------------------------- rag_qa data
Queries == {"q1", "q2"}
Answers == {"a1", "a2"}

\* hashlib.md5(query.encode("utf-8")).hexdigest(): distinct digests for the queries used
Md5(q) == CASE q = "q1" -> "9dd4e461" [] q = "q2" -> "c81e728d" [] OTHER -> "d41d8cd9"

\* cache_key = f"rag:response:{query_hash}"
cache_key(q) == "rag:response:" \o Md5(q)

RagKeys == {cache_key(q) : q \in Queries}

\* `ex=3600` of the cache write
RAG_TTL == 3600
\* `k=3` of the similarity search
TOP_K == 3
\* `d.page_content[:100]`
PREVIEW_LEN == 100

\* d.page_content[:100] + "..."
Preview(text) == SubSeq(text, 1, Min(PREVIEW_LEN, Len(text))) \o <<".", ".", ".">>

\* the loop over docs that collects the sources, first chunk of every title
RECURSIVE SourcesFrom(_, _)
SourcesFrom(ds, seen) ==
    IF ds = <<>> THEN <<>>
    ELSE IF Head(ds).source \in seen
         THEN SourcesFrom(Tail(ds), seen)
         ELSE <<[title |-> Head(ds).source, content |-> Preview(Head(ds).page_content)]>>
              \o SourcesFrom(Tail(ds), seen \cup {Head(ds).source})

\* mutant: one source per retrieved chunk, titles repeated
sources_of_every_chunk(ds) ==
    [i \in 1..Len(ds) |-> [title |-> ds[i].source, content |-> Preview(ds[i].page_content)]]

sources_of(ds) == SourcesFrom(ds, {})

\* json.dumps(result) and json.loads(cached_result)
Dumps(r) == <<"json", r.response, r.sources>>
Loads(str) == [response |-> str[2], sources |-> str[3]]

NoResult == [response |-> "", sources |-> <<>>]

\* the fixed apology string of rag_qa ("Sorry, the system cannot answer your request
\* for the moment", in Chinese in the source)
APOLOGY == "apology"

\* mutant: the except branch logs and re-raises
rag_except_reraises == [result |-> NoResult, raised |-> TRUE]

\* the except branch of rag_qa: the fixed apology, nothing propagated
rag_except ==
    [result |-> [response |-> APOLOGY, sources |-> <<>>], raised |-> FALSE]

\* mutant: the except branch caches the apology under the key of the query
rag_except_tiers_caches(k) ==
    [memory_cache |-> set_memory(k, Dumps(rag_except.result), RAG_TTL, TRUE),
     remote |-> set_remote(k, Dumps(rag_except.result), RAG_TTL, TRUE)]

\* the cache tiers after the except branch of rag_qa for the key k: the branch logs
\* and returns, it calls no redis_manager method
rag_except_tiers(k) == [memory_cache |-> memory_cache, remote |-> remote]

\* afterFailure (history): when the call looked the cache up, a call for the same query
\* had returned the apology
\* fresh (history): when the call looked the cache up, an answer to its query had been
\* cached by a call that had returned, less than RAG_TTL seconds before
\* stale (history): the call returned a cached answer one of whose sources was, at that
\* time, the title and text of no active document
IdleCall == [pc |-> "idle", query |-> "", docs |-> <<>>, result |-> NoResult,
             raised |-> FALSE, hit |-> FALSE, searched |-> FALSE, generated |-> FALSE,
             failed |-> "", fresh |-> FALSE, use_rag |-> TRUE, stale |-> FALSE,
             afterFailure |-> FALSE]

\* ----------------------------------------------------------------- history
RemoteOutcome(ok) ==
    IF remote_usable THEN (IF ok THEN "ok" ELSE "raised") ELSE "skipped"

NoOp == [op |-> "none", key |-> "", result |-> None, remote |-> "skipped", at |-> 0]

\* until: the time up to which the value is within its ttl (Inf: no ttl)
NoSet == [present |-> FALSE, value |-> None, until |-> Inf,
          remoteOK |-> FALSE, okAfter |-> FALSE]

\* a remote call that succeeded is noted on every recorded set
NoteRemote(ls, ok) ==
    [x \in DOMAIN ls |->
        IF remote_usable /\ ok /\ ls[x].present
        THEN [ls[x] EXCEPT !.okAfter = TRUE] ELSE ls[x]]

\* history of a completed set(k, v, ex)
NoteSet(k, v, ex, ok) ==
    Put(NoteRemote(lastSet, ok), k,
        [present |-> TRUE, value |-> v, until |-> IF ex > 0 THEN now + ex ELSE Inf,
         remoteOK |-> (remote_usable /\ ok), okAfter |-> FALSE])

\* ------------------------------------------------- CacheManager operations
\* the value a propagated exception is recorded as
Raised == <<"raise">>

\* CacheManager.get(k): both tiers afterwards
CacheGet(k, ok) ==
    /\ memory_cache' = get_memory(k, ok)
    /\ remote' = remote

\* CacheManager.set(k, v, ex): both tiers afterwards
CacheSet(k, v, ex, ok) ==
    /\ memory_cache' = set_memory(k, v, ex, ok)
    /\ remote' = set_remote(k, v, ex, ok)

\* CacheManager.delete(k): both tiers afterwards
CacheDelete(k, ok) ==
    /\ memory_cache' = delete_memory(k)
    /\ remote' = delete_remote(k, ok)

\* mutant: the except branch of init_redis leaves the client and the flag set
init_redis_except_keeps == [use_redis |-> TRUE, redis |-> TRUE]

\* init_redis, except branch: `self.use_redis = False ... self.redis = None`
init_redis_except == [use_redis |-> FALSE, redis |-> FALSE]

\* init_redis, try branch after the ping: `self.redis = client; self.use_redis = True`
init_redis_try == [use_redis |-> TRUE, redis |-> TRUE]

\* CacheManager.init_redis(): the fields afterwards; ok = from_url and ping succeeded.
\* Every exception is caught, so the call returns on both branches.
init_redis_fields(ok) == IF ok THEN init_redis_try ELSE init_redis_except

\* CacheManager.init_redis(), called once by lifespan before serving
init_redis ==
    /\ phase = "boot"
    /\ \E ok \in BOOLEAN :
        /\ use_redis' = init_redis_fields(ok).use_redis
        /\ redis' = init_redis_fields(ok).redis
    /\ phase' = "serving"
    /\ UNCHANGED apiVars
    /\ UNCHANGED <<memory_cache, remote, now, ticks, histVars, ragVars, indexVars>>

\* CacheManager.close(), called by lifespan at shutdown
close ==
    /\ phase = "serving"
    /\ phase' = "closed"
    /\ memory_cache' = EmptyMap
    /\ UNCHANGED apiVars
    /\ UNCHANGED <<use_redis, redis, remote, now, ticks, histVars, ragVars, indexVars>>

\* mutant: a remote call that raised switches the remote tier off
tier_after_call_disables(ok) ==
    IF remote_usable /\ ~ok
    THEN [use_redis |-> FALSE, redis |-> FALSE]
    ELSE [use_redis |-> use_redis, redis |-> redis]

\* get, set and delete only read self.use_redis and self.redis; their except branches
\* log (or pass) and assign neither field
tier_after_call(ok) == [use_redis |-> use_redis, redis |-> redis]

\* a caller awaits redis_manager.get(k)
get ==
    /\ phase = "serving"
    /\ \E k \in CacheKeys, ok \in BOOLEAN :
        /\ CacheGet(k, ok)
        /\ lastOp' = [op |-> "get", key |-> k, result |-> get_result(k, ok),
                      remote |-> RemoteOutcome(ok), at |-> now]
        /\ lastSet' = NoteRemote(lastSet, ok)
        /\ remoteEverOK' = (remoteEverOK \/ (remote_usable /\ ok))
        /\ use_redis' = tier_after_call(ok).use_redis
        /\ redis' = tier_after_call(ok).redis
    /\ UNCHANGED apiVars
    /\ UNCHANGED <<phase, now, ticks, ragVars, indexVars>>

\* a caller awaits redis_manager.set(k, v, ex)
set ==
    /\ phase = "serving"
    /\ \E c \in CacheSets, ok \in BOOLEAN :
        /\ CacheSet(c[1], c[2], c[3], ok)
        /\ lastOp' = [op |-> "set", key |-> c[1], result |-> None,
                      remote |-> RemoteOutcome(ok), at |-> now]
        /\ lastSet' = NoteSet(c[1], c[2], c[3], ok)
        /\ remoteEverOK' = (remoteEverOK \/ (remote_usable /\ ok))
        /\ use_redis' = tier_after_call(ok).use_redis
        /\ redis' = tier_after_call(ok).redis
    /\ UNCHANGED apiVars
    /\ UNCHANGED <<phase, now, ticks, ragVars, indexVars>>

\* a caller awaits redis_manager.delete(k)
delete ==
    /\ phase = "serving"
    /\ \E k \in CacheKeys, ok \in BOOLEAN :
        /\ CacheDelete(k, ok)
        /\ lastOp' = [op |-> "delete", key |-> k, result |-> None,
                      remote |-> RemoteOutcome(ok), at |-> now]
        /\ lastSet' = Put(NoteRemote(lastSet, ok), k, NoSet)
        /\ remoteEverOK' = (remoteEverOK \/ (remote_usable /\ ok))
        /\ use_redis' = tier_after_call(ok).use_redis
        /\ redis' = tier_after_call(ok).redis
    /\ UNCHANGED apiVars
    /\ UNCHANGED <<phase, now, ticks, ragVars, indexVars>>

\* the clock advances by one second
Tick ==
    /\ ticks < MaxTicks
    /\ now' = now + 1
    /\ ticks' = ticks + 1
    /\ UNCHANGED apiVars
    /\ UNCHANGED <<phase, use_redis, redis, memory_cache, remote, histVars, ragVars,
                   indexVars>>

\* --------------------------------------------------------- POST /completion
\* texts are tuples of characters; the fullwidth punctuation marks are written by
\* their code points
Whitespace == {" ", "\t", "\n", "\r"}

\* the character class of `re.split(r'[...]', generated_text)`: fullwidth comma, comma,
\* ideographic full stop, fullwidth and ASCII exclamation mark, fullwidth and ASCII
\* question mark, semicolon, fullwidth semicolon, newline
Boundary == {"U+FF0C", ",", "U+3002", "U+FF01", "!", "U+FF1F", "?", ";", "U+FF1B", "\n"}

\* the characters the raw outputs are made of: a letter, a full stop (no boundary),
\* a space, a newline, and two boundary marks
Chars == {"a", ".", " ", "\n", ",", "U+3002"}

RawOutputs == UNION {[1..n -> Chars] : n \in 0..MaxLen}

\* mutant: the leading whitespace is kept
lstrip_keeps(text) == text

\* str.lstrip()
RECURSIVE lstrip(_)
lstrip(text) ==
    IF text # <<>> /\ Head(text) \in Whitespace THEN lstrip(Tail(text)) ELSE text

\* re.split(pattern, text): the pieces between the boundary characters
RECURSIVE re_split(_)
re_split(text) ==
    IF text = <<>> THEN << <<>> >>
    ELSE LET rest == re_split(Tail(text))
         IN  IF Head(text) \in Boundary
             THEN << <<>> >> \o rest
             ELSE << <<Head(text)>> \o rest[1] >> \o Tail(rest)

\* the post-processing of complete_text: lstrip, split, first piece
final_text(generated_text) == re_split(lstrip(generated_text))[1]

\* JSON values
JStr(text) == [t |-> "str", v |-> text]
JNull == [t |-> "null"]
JList(l) == [t |-> "list", v |-> l]
JObj(f) == [t |-> "obj", v |-> f]

\* the bodies a 200 response of the inference endpoint carries: the completions format,
\* a bare content field (with or without an empty choices list), and unexpected ones
\* (an error object, a chat-format choice with no text, a null text, a null choices,
\* a null content, a list, null)
Payloads ==
    {JObj([choices |-> JList(<<JObj([text |-> JStr(r)])>>)]) : r \in RawOutputs}
    \cup {JObj([content |-> JStr(r)]) : r \in RawOutputs}
    \cup {JObj([choices |-> JList(<<>>), content |-> JStr(<<" ", "a", ",">>)]),
          JObj([error |-> JStr(<<"a">>)]),
          JObj([choices |-> JList(<<JObj([message |-> JStr(<<"a">>)])>>)]),
          JObj([choices |-> JList(<<JObj([text |-> JNull])>>)]),
          JObj([choices |-> JNull]),
          JObj([content |-> JNull]),
          JList(<<>>),
          JNull}

\* what `await client.post(...)` ends in: a transport error or timeout
\* (httpx.RequestError), a response with a non-2xx status, a 200 response whose body
\* is not JSON, a 200 response with a JSON body
Responses ==
    {[kind |-> "request_error"], [kind |-> "status_error"], [kind |-> "not_json"]}
    \cup {[kind |-> "json", result |-> b] : b \in Payloads}

Returned(text) == [raised |-> FALSE, value |-> text]
Raises == [raised |-> TRUE, value |-> <<>>]

\* result.get("content", ""): a dict method, so anything but an object raises
get_content(result) ==
    IF result.t # "obj" THEN Raises
    ELSE IF "content" \in DOMAIN result.v THEN Returned(result.v["content"])
    ELSE Returned(JStr(<<>>))

\* the extraction of generated_text from the parsed body, as Python evaluates it
extract_text(result) ==
    IF result.t = "null" THEN Raises
    ELSE IF result.t = "obj" /\ "choices" \in DOMAIN result.v
    THEN IF result.v["choices"].t # "list" THEN Raises
         ELSE IF Len(result.v["choices"].v) > 0
         THEN IF /\ result.v["choices"].v[1].t = "obj"
                 /\ "text" \in DOMAIN result.v["choices"].v[1].v
              THEN Returned(result.v["choices"].v[1].v["text"])
              ELSE Raises
         ELSE get_content(result)
    ELSE get_content(result)

\* mutant: the except branches log and re-raise
complete_text_except_reraises == Raises

\* `except httpx.RequestError` and `except Exception` of complete_text: return ""
complete_text_except == Returned(<<>>)

\* the try block of complete_text after the post: raise_for_status, response.json(),
\* the extraction, and the post-processing (lstrip is a str method)
complete_text_try(resp) ==
    IF resp.kind # "json" THEN Raises
    ELSE IF extract_text(resp.result).raised THEN Raises
    ELSE IF extract_text(resp.result).value.t # "str" THEN Raises
    ELSE Returned(final_text(extract_text(resp.result).value.v))

\* complete_text(prefix, suffix), given what the post ended in
complete_text(resp) ==
    IF complete_text_try(resp).raised THEN complete_text_except ELSE complete_text_try(resp)

\* mutant: the check of the prefix is missing
short_circuits_never(prefix) == FALSE

\* `if not request.prefix`
short_circuits(prefix) == prefix = <<>>

\* `prefix[-1000:]` and `suffix[:200]` of _truncate_context
PREFIX_KEEP == 1000
SUFFIX_KEEP == 200
\* `safe_prefix[-500:]` and `safe_suffix[:200]` in the prompt of complete_text
PROMPT_PREFIX == 500
PROMPT_SUFFIX == 200

\* a text of n characters, each written as its position in the text
Text(n) == [i \in 1..n |-> i]

\* Python's text[-n:] for n > 0: the last n characters, or the whole text
LastChars(text, n) == SubSeq(text, Len(text) - Min(n, Len(text)) + 1, Len(text))

\* Python's text[:n]: the first n characters, or the whole text
FirstChars(text, n) == SubSeq(text, 1, Min(n, Len(text)))

\* _truncate_context(prefix, suffix)
truncate_context(prefix, suffix) ==
    [prefix |-> LastChars(prefix, PREFIX_KEEP), suffix |-> FirstChars(suffix, SUFFIX_KEEP)]

\* complete_text: the two texts the prompt embeds, between its fixed parts
prompt_of(prefix, suffix) ==
    [prefix |-> LastChars(truncate_context(prefix, suffix).prefix, PROMPT_PREFIX),
     suffix |-> FirstChars(truncate_context(prefix, suffix).suffix, PROMPT_SUFFIX)]

\* the prefixes and suffixes the editor sends: empty, one character, and lengths at
\* and beyond the limits of the two slicings
Prefixes == {Text(n) : n \in {0, 1, PROMPT_PREFIX, PROMPT_PREFIX + 1, PREFIX_KEEP + 1}}
Suffixes == {Text(n) : n \in {0, 1, SUFFIX_KEEP + 1}}

NoResponse == [kind |-> "none"]

\* no prompt has been built
NoPrompt == [prefix |-> <<>>, suffix |-> <<>>]

IdleCompletion == [pc |-> "idle", prefix |-> <<>>, suffix |-> <<>>, calls |-> 0,
                   prompt |-> NoPrompt,
                   resp |-> NoResponse, status |-> 0, completion |-> <<>>]

\* generate_completion after complete_text came back: {"completion": result}, or the
\* HTTPException(500) of the endpoint's except branch
completion_response(r) ==
    IF r.raised THEN [status |-> 500, completion |-> <<>>]
    ELSE [status |-> 200, completion |-> r.value]

\* POST /completion arrives: the empty prefix is answered at once, any other prefix
\* calls complete_text, which awaits the post
generate_completion ==
    /\ completion.pc \in {"idle", "done"}
    /\ \E prefix \in Prefixes, suffix \in Suffixes :
        completion' =
            IF short_circuits(prefix)
            THEN [IdleCompletion EXCEPT !.pc = "done", !.prefix = prefix, !.suffix = suffix,
                                        !.status = 200]
            ELSE [IdleCompletion EXCEPT !.pc = "post", !.prefix = prefix, !.suffix = suffix,
                                        !.calls = 1, !.prompt = prompt_of(prefix, suffix)]
    /\ UNCHANGED <<cacheVars, histVars, ragVars, indexVars, bootVars, storeVars, docVars>>

\* the post of complete_text ends, complete_text returns, generate_completion answers
complete_text_returns ==
    /\ completion.pc = "post"
    /\ \E resp \in Responses :
        completion' = [completion EXCEPT
            !.pc = "done", !.resp = resp,
            !.status = completion_response(complete_text(resp)).status,
            !.completion = completion_response(complete_text(resp)).completion]
    /\ UNCHANGED <<cacheVars, histVars, ragVars, indexVars, bootVars, storeVars, docVars>>

\* no startup step has run
NoBoot == [redis |-> "none", db |-> "none"]

\* a worker thread that is not resolving the dependency
IdleWorker == [pc |-> "idle", new |-> 0, returned |-> 0]

\* missAt (history): the number of committed writes when list_documents last queried
\* the table, -1 before; afterMiss (history): this list_documents call followed such a
\* query with no committed write in between
NoReq == [op |-> "none", id |-> 0, status |-> 0, result |-> {}, queried |-> FALSE,
          afterMiss |-> FALSE, missAt |-> -1]

InitApiVars ==
    /\ completion = IdleCompletion
    /\ boot = NoBoot
    /\ vector_store_instance = 0
    /\ constructed = 0
    /\ workers = [t \in 1..MaxThreads |-> IdleWorker]
    /\ req = NoReq

InitCacheVars ==
    /\ phase = "boot"
    /\ use_redis = FALSE
    /\ redis = FALSE
    /\ memory_cache = EmptyMap
    /\ remote = EmptyMap
    /\ now = 0
    /\ ticks = 0
    /\ lastOp = NoOp
    /\ lastSet = [k \in CacheKeys |-> NoSet]
    /\ remoteEverOK = FALSE

InitRagVars ==
    /\ calls = [c \in 1..MaxCalls |-> IdleCall]
    /\ searchEverOK = FALSE
    /\ llmEverOK = FALSE

InitIndexVars ==
    /\ vector_store = {}
    /\ api_key_ok = TRUE
    /\ docs = <<>>
    /\ tasks = <<>>
    /\ delRan = [d \in 1..MaxDocs |-> "no"]

InitCache == InitCacheVars /\ InitRagVars /\ InitIndexVars /\ InitApiVars

\* ---------------------------------------------------------- lifespan startup
\* lifespan, `await redis_manager.init_redis()`: returns on success and on failure
lifespan_init_redis ==
    /\ phase = "boot"
    /\ \E ok \in BOOLEAN :
        /\ use_redis' = init_redis_fields(ok).use_redis
        /\ redis' = init_redis_fields(ok).redis
        /\ boot' = [boot EXCEPT !.redis = IF ok THEN "ok" ELSE "failed"]
    /\ phase' = "init_db"
    /\ UNCHANGED <<completion, storeVars, docVars>>
    /\ UNCHANGED <<memory_cache, remote, now, ticks, histVars, ragVars, indexVars>>

\* lifespan, `except Exception as e: logger.error(...)` with `# raise e` commented out:
\* the phase after init_db raised
lifespan_except == "serving"

\* lifespan after `await init_db()`: the phase the process is in at `yield`;
\* ok = init_db returned, ~ok = it raised (60 connection attempts failed, or create_all)
lifespan_after_init_db(ok) == IF ok THEN "serving" ELSE lifespan_except

\* lifespan, `await init_db()` up to the `yield`
lifespan_init_db ==
    /\ phase = "init_db"
    /\ \E ok \in BOOLEAN :
        /\ phase' = lifespan_after_init_db(ok)
        /\ boot' = [boot EXCEPT !.db = IF ok THEN "ok" ELSE "failed"]
    /\ UNCHANGED <<completion, storeVars, docVars>>
    /\ UNCHANGED <<use_redis, redis, memory_cache, remote, now, ticks, histVars,
                   ragVars, indexVars>>

NextBoot == lifespan_init_redis \/ lifespan_init_db \/ get \/ set \/ delete \/ close

SpecBoot == InitCache /\ [][NextBoot]_vars

\* ------------------------------------------------------- get_vector_store()
\* get_vector_store, `if _vector_store_instance is None`: where the thread goes next
get_vector_store_check == IF vector_store_instance = 0 THEN "construct" ELSE "return"

\* a request arrives: the threadpool runs the sync dependency get_agent_service, whose
\* AgentService.__init__ calls get_vector_store(); the thread tests the global
get_agent_service ==
    \E t \in 1..MaxThreads :
        /\ workers[t].pc = "idle"
        /\ workers' = [workers EXCEPT ![t] = [IdleWorker EXCEPT !.pc = get_vector_store_check]]
        /\ UNCHANGED <<vector_store_instance, constructed>>
        /\ UNCHANGED <<completion, bootVars, docVars, cacheVars, histVars, ragVars, indexVars>>

\* `Chroma(persist_directory=..., embedding_function=...)` runs in thread t
get_vector_store_construct ==
    \E t \in 1..MaxThreads :
        /\ workers[t].pc = "construct"
        /\ constructed' = constructed + 1
        /\ workers' = [workers EXCEPT ![t].pc = "assign", ![t].new = constructed + 1]
        /\ UNCHANGED vector_store_instance
        /\ UNCHANGED <<completion, bootVars, docVars, cacheVars, histVars, ragVars, indexVars>>

\* `_vector_store_instance = <the new Chroma>` in thread t
get_vector_store_assign ==
    \E t \in 1..MaxThreads :
        /\ workers[t].pc = "assign"
        /\ vector_store_instance' = workers[t].new
        /\ workers' = [workers EXCEPT ![t].pc = "return"]
        /\ UNCHANGED constructed
        /\ UNCHANGED <<completion, bootVars, docVars, cacheVars, histVars, ragVars, indexVars>>

\* `return _vector_store_instance` in thread t: self.vector_store of the new AgentService
get_vector_store_return ==
    \E t \in 1..MaxThreads :
        /\ workers[t].pc = "return"
        /\ workers' = [workers EXCEPT ![t].pc = "done", ![t].returned = vector_store_instance]
        /\ UNCHANGED <<vector_store_instance, constructed>>
        /\ UNCHANGED <<completion, bootVars, docVars, cacheVars, histVars, ragVars, indexVars>>

NextStore ==
    \/ get_agent_service
    \/ get_vector_store_construct
    \/ get_vector_store_assign
    \/ get_vector_store_return

SpecStore == InitCache /\ [][NextStore]_vars

NextCache == init_redis \/ get \/ set \/ delete \/ close \/ Tick

SpecCache == InitCache /\ [][NextCache]_vars

\* the completion endpoint serving one request after another
NextCompletion == generate_completion \/ complete_text_returns

SpecCompletion == InitCache /\ [][NextCompletion]_vars

\* ------------------------------------------------------------------- rag_qa
Done(c) == calls[c].pc = "done"

\* the last set of k has returned, is not followed by a delete, and its ttl has not elapsed
Fresh(k) == lastSet[k].present /\ (lastSet[k].until = Inf \/ now < lastSet[k].until)

\* a source of the answer r is no longer the title and a piece of an active document
SourceChanged(r) ==
    \E i \in 1..Len(r.sources) :
        ~\E d \in 1..Len(docs) :
            /\ docs[d].is_active
            /\ docs[d].title = r.sources[i].title
            /\ \E j \in 1..Len(docs[d].content) :
                    Preview(docs[d].content[j]) = r.sources[i].content

\* a call of rag_qa(q) has returned the apology
FailedBefore(q) ==
    \E x \in 1..MaxCalls : Done(x) /\ calls[x].query = q /\ calls[x].failed # ""

\* rag_qa(q) up to its first branch: the cache key, `await redis_manager.get(cache_key)`,
\* and on a hit `return json.loads(cached_result)`
rag_qa_lookup(c, q, ok) ==
    LET cached == get_result(cache_key(q), ok)
        base == [calls[c] EXCEPT !.query = q, !.fresh = Fresh(cache_key(q)),
                                 !.afterFailure = FailedBefore(q)]
    IN  /\ CacheGet(cache_key(q), ok)
        /\ calls' = [calls EXCEPT ![c] =
              IF cached # None
              THEN [base EXCEPT !.pc = "done", !.hit = TRUE, !.result = Loads(cached),
                                !.stale = SourceChanged(Loads(cached))]
              ELSE [base EXCEPT !.pc = "search"]]

\* the similarity search raised: the except branch
rag_qa_search_raises(c) ==
    calls' = [calls EXCEPT ![c] =
        [@ EXCEPT !.pc = "done", !.searched = TRUE, !.failed = "search",
                  !.result = rag_except.result, !.raised = rag_except.raised]]

\* the similarity search returned ds
rag_qa_search_returns(c, ds) ==
    calls' = [calls EXCEPT ![c] = [@ EXCEPT !.pc = "generate", !.searched = TRUE, !.docs = ds]]

\* llm.ainvoke raised: the except branch
rag_qa_llm_raises(c) ==
    calls' = [calls EXCEPT ![c] =
        [@ EXCEPT !.pc = "done", !.generated = TRUE, !.failed = "llm", !.docs = <<>>,
                  !.result = rag_except.result, !.raised = rag_except.raised]]

\* the result of a miss: the model's answer with the sources of the retrieved chunks
rag_result(c, a) == [response |-> a, sources |-> sources_of(calls[c].docs)]

\* llm.ainvoke returned a: the result is cached for an hour and returned
rag_qa_llm_returns(c, a, ok) ==
    /\ CacheSet(cache_key(calls[c].query), Dumps(rag_result(c, a)), RAG_TTL, ok)
    /\ calls' = [calls EXCEPT ![c] =
        [@ EXCEPT !.pc = "done", !.generated = TRUE, !.docs = <<>>,
                  !.result = rag_result(c, a)]]
    /\ lastSet' = Put(lastSet, cache_key(calls[c].query),
                      [NoSet EXCEPT !.present = TRUE, !.until = now + RAG_TTL])

\* a request calls rag_qa(q); the calls take the slots in order
rag_lookup ==
    /\ phase = "serving"
    /\ \E c \in 1..MaxCalls, q \in Queries, ok \in BOOLEAN :
        /\ calls[c].pc = "idle"
        /\ \A x \in 1..(c - 1) : calls[x].pc # "idle"
        /\ rag_qa_lookup(c, q, ok)
    /\ UNCHANGED apiVars
    /\ UNCHANGED <<phase, use_redis, redis, now, ticks, histVars, searchEverOK, llmEverOK,
                   indexVars>>

\* a rag_qa call resumes from `await run_in_threadpool(similarity_search, query, k=3)`
rag_search ==
    /\ \E c \in 1..MaxCalls :
        /\ calls[c].pc = "search"
        /\ \/ /\ rag_qa_search_raises(c)
              /\ memory_cache' = rag_except_tiers(cache_key(calls[c].query)).memory_cache
              /\ remote' = rag_except_tiers(cache_key(calls[c].query)).remote
              /\ UNCHANGED searchEverOK
           \/ /\ \E ds \in similarity_search(TOP_K) : rag_qa_search_returns(c, ds)
              /\ searchEverOK' = TRUE
              /\ UNCHANGED <<memory_cache, remote>>
    /\ UNCHANGED apiVars
    /\ UNCHANGED <<phase, use_redis, redis, now, ticks, histVars, llmEverOK, indexVars>>

\* a rag_qa call resumes from `await llm.ainvoke(prompt)` and runs to its return
rag_generate ==
    /\ \E c \in 1..MaxCalls :
        /\ calls[c].pc = "generate"
        /\ \/ /\ rag_qa_llm_raises(c)
              /\ memory_cache' = rag_except_tiers(cache_key(calls[c].query)).memory_cache
              /\ remote' = rag_except_tiers(cache_key(calls[c].query)).remote
              /\ UNCHANGED <<lastSet, llmEverOK>>
           \/ /\ \E a \in Answers, ok \in BOOLEAN : rag_qa_llm_returns(c, a, ok)
              /\ llmEverOK' = TRUE
    /\ UNCHANGED apiVars
    /\ UNCHANGED <<phase, use_redis, redis, now, ticks, lastOp, remoteEverOK, searchEverOK,
                   indexVars>>

\* the clock advances, by a second or by a second less than the ttl of a cached answer
TickRag ==
    /\ ticks < MaxTicks
    /\ \E d \in {1, RAG_TTL - 1} : now' = now + d
    /\ ticks' = ticks + 1
    /\ UNCHANGED apiVars
    /\ UNCHANGED <<phase, use_redis, redis, memory_cache, remote, histVars, ragVars,
                   indexVars>>

\* the collection the process finds at start: a chunk of a document indexed earlier
StoredChunks == {Chunk(0, 1, 1, "t1", TextX)}

InitRag ==
    /\ phase = "boot"
    /\ use_redis = FALSE
    /\ redis = FALSE
    /\ memory_cache = EmptyMap
    /\ remote = EmptyMap
    /\ now = 0
    /\ ticks = 0
    /\ lastOp = NoOp
    /\ lastSet = [k \in RagKeys |-> NoSet]
    /\ remoteEverOK = FALSE
    /\ InitRagVars
    /\ InitApiVars
    /\ vector_store = StoredChunks
    /\ api_key_ok = TRUE
    /\ docs = <<>>
    /\ tasks = <<>>
    /\ delRan = [d \in 1..MaxDocs |-> "no"]

NextRag == init_redis \/ rag_lookup \/ rag_search \/ rag_generate \/ TickRag

SpecRag == InitRag /\ [][NextRag]_vars

\* --------------------------------------------------------------- POST /chat
\* mutant: the plain branch dispatches into the retrieval of rag_qa
chat_with_agent_plain_retrieves(c, q) ==
    calls' = [calls EXCEPT ![c] = [@ EXCEPT !.pc = "search", !.query = q, !.use_rag = FALSE]]

\* chat_with_agent with use_rag false, up to `await agent_service.ask_ai(user_query)`
\* and in it `await llm.ainvoke(prompt)`
chat_with_agent_plain(c, q) ==
    calls' = [calls EXCEPT ![c] = [@ EXCEPT !.pc = "ask_ai", !.query = q, !.use_rag = FALSE]]

\* ask_ai: llm.ainvoke raised; ask_ai and chat_with_agent have no handler, the
\* exception leaves the endpoint
ask_ai_raises(c) ==
    calls' = [calls EXCEPT ![c] =
        [@ EXCEPT !.pc = "done", !.generated = TRUE, !.failed = "llm", !.raised = TRUE]]

\* ask_ai: llm.ainvoke returned a; ChatResponse(response=a, sources=None)
ask_ai_returns(c, a) ==
    calls' = [calls EXCEPT ![c] =
        [@ EXCEPT !.pc = "done", !.generated = TRUE,
                  !.result = [response |-> a, sources |-> None]]]

\* what POST /chat answers for a finished call: the ChatResponse, or the 500 the
\* server makes of an exception that left the endpoint
chat_with_agent_response(c) ==
    IF calls[c].raised
    THEN [status |-> 500, body |-> NoResult]
    ELSE [status |-> 200, body |-> calls[c].result]

\* a request POSTs /chat with use_rag false
chat_plain ==
    /\ phase = "serving"
    /\ \E c \in 1..MaxCalls, q \in Queries :
        /\ calls[c].pc = "idle"
        /\ \A x \in 1..(c - 1) : calls[x].pc # "idle"
        /\ chat_with_agent_plain(c, q)
    /\ UNCHANGED apiVars
    /\ UNCHANGED <<cacheVars, histVars, searchEverOK, llmEverOK, indexVars>>

\* a plain chat resumes from `await llm.ainvoke(prompt)` in ask_ai
ask_ai ==
    /\ \E c \in 1..MaxCalls :
        /\ calls[c].pc = "ask_ai"
        /\ \/ ask_ai_raises(c) /\ UNCHANGED llmEverOK
           \/ \E a \in Answers : ask_ai_returns(c, a) /\ llmEverOK' = TRUE
    /\ UNCHANGED apiVars
    /\ UNCHANGED <<cacheVars, histVars, searchEverOK, indexVars>>

\* POST /chat in both modes: use_rag true runs rag_qa, use_rag false runs ask_ai
\* ------------------------------------------------- rag_qa over a fuller index
\* a page content one character longer than the preview, its last character differing
LongText == [i \in 1..(PREVIEW_LEN + 1) |-> IF i <= PREVIEW_LEN THEN "y" ELSE "z"]

\* chunks index tasks have stored: two of one document (same title, different texts),
\* one with a long text, one more of a third document
RichChunks == {Chunk(1, 1, 1, "t1", TextX), Chunk(1, 2, 1, "t1", TextY),
               Chunk(2, 1, 2, "t2", LongText), Chunk(3, 1, 3, "t3", TextZ)}

\* the process is serving without Redis, the index holds any of the chunks, and a
\* rag_qa("q1") has missed the empty cache and is about to search
InitSources ==
    /\ phase = "serving"
    /\ use_redis = FALSE
    /\ redis = FALSE
    /\ memory_cache = EmptyMap
    /\ remote = EmptyMap
    /\ now = 0
    /\ ticks = 0
    /\ lastOp = NoOp
    /\ lastSet = [k \in RagKeys |-> NoSet]
    /\ remoteEverOK = FALSE
    /\ calls = [c \in 1..MaxCalls |->
            IF c = 1 THEN [IdleCall EXCEPT !.pc = "search", !.query = "q1"] ELSE IdleCall]
    /\ searchEverOK = FALSE
    /\ llmEverOK = FALSE
    /\ InitApiVars
    /\ vector_store \in SUBSET RichChunks
    /\ api_key_ok = TRUE
    /\ docs = <<>>
    /\ tasks = <<>>
    /\ delRan = [d \in 1..MaxDocs |-> "no"]

NextSources == rag_search \/ rag_generate

SpecSources == InitSources /\ [][NextSources]_vars

NextChat == init_redis \/ rag_lookup \/ rag_search \/ rag_generate \/ chat_plain \/ ask_ai

SpecChat == InitRag /\ [][NextChat]_vars

\* ------------------------------------------------- documents and their tasks
\* the bodies (DocumentCreate) the write requests carry; a content is the sequence of
\* pieces the two splitters cut it into (the empty content has none)
Bodies == {[title |-> "t1", content |-> <<>>],
           [title |-> "t1", content |-> <<TextX>>],
           [title |-> "t2", content |-> <<TextY, TextZ>>]}

\* `max_retries = 3` and `retry_delay = 2` of index_document
MAX_RETRIES == 3
RETRY_DELAY == 2

\* final_splits: MarkdownHeaderTextSplitter, then RecursiveCharacterTextSplitter,
\* then the fallback create_documents([content]) when nothing came out
final_splits(content) == content

\* mutant: the chunks are handed over without the source and doc_id metadata
docs_of_unstamped(t) ==
    {Chunk(t, i, 0, "", final_splits(tasks[t].content)[i]) :
        i \in 1..Len(final_splits(tasks[t].content))}

\* the docs list of index_document: every split stamped with source and doc_id
docs_of(t) ==
    {Chunk(t, i, tasks[t].doc_id, tasks[t].title, final_splits(tasks[t].content)[i]) :
        i \in 1..Len(final_splits(tasks[t].content))}

\* mutant: the `if not content` and `if not docs` returns are missing
index_skips_key_only(t) == ~api_key_ok

\* index_document returns before the retry loop: no valid key, no content, no chunk
index_skips(t) ==
    \/ ~api_key_ok
    \/ tasks[t].content = <<>>
    \/ docs_of(t) = {}

\* vector_store.add_documents(docs) succeeded
add_documents(t) == vector_store \cup docs_of(t)

\* mutant: the where filter names a metadata key no chunk carries
delete_where_nothing(d) == vector_store

\* mutant: the where filter is inverted
delete_where_others(d) == {c \in vector_store : c.doc_id = d}

\* vector_store.delete(where={"doc_id": doc_id}) succeeded
delete_where(d) == {c \in vector_store : c.doc_id # d}

\* mutant: the outer except logs and re-raises
index_document_except_reraises(task) == [task EXCEPT !.pc = "failed", !.raised = TRUE]

\* the outer `except Exception` of index_document: the failure is logged, the call ends
index_document_except(task) == [task EXCEPT !.pc = "failed", !.raised = FALSE]

\* mutant: the loop sleeps and retries after its last attempt too
after_failed_add_once_more(task) ==
    IF task.retry < MAX_RETRIES
    THEN [task EXCEPT !.pc = "sleep", !.slept = Append(@, task.retry_delay),
                      !.retry_delay = 2 * task.retry_delay]
    ELSE index_document_except(task)

\* the except branch of the retry loop: sleep and double the delay, or `raise e` into
\* the outer except
after_failed_add(task) ==
    IF task.retry < MAX_RETRIES - 1
    THEN [task EXCEPT !.pc = "sleep", !.slept = Append(@, task.retry_delay),
                      !.retry_delay = 2 * task.retry_delay]
    ELSE index_document_except(task)

\* mutant: the query of get_document has no is_active filter
get_document_any(d) == d \in 1..Len(docs)

\* DocumentService.get_document(id): the row, if it exists and is active
get_document(d) == d \in 1..Len(docs) /\ docs[d].is_active

\* a background task as add_task takes it; response is the value the write request
\* returned to its route, which answers before the task is run
NewTask(kind, origin, d, title, content, response) ==
    [kind |-> kind, origin |-> origin, doc_id |-> d, title |-> title, content |-> content,
     pc |-> "run", retry |-> 0, retry_delay |-> RETRY_DELAY, slept |-> <<>>,
     late |-> FALSE, attempts |-> 0, raised |-> FALSE, response |-> response]

\* the Document row create_document and update_document return
Row(b) == [title |-> b.title, content |-> b.content, is_active |-> TRUE]

\* mutant: the task is enqueued whether the commit went through or not
add_task_uncommitted(committed, task) == Append(tasks, task)

\* `await self.db.commit()` comes before `background_tasks.add_task(...)`: a commit
\* that raises leaves the method before the task is added
add_task(committed, task) == IF committed THEN Append(tasks, task) ELSE tasks

\* mutant: the invalidation clears the whole cache instead of one key
invalidate_cache_flushes(ok) ==
    /\ memory_cache' = EmptyMap
    /\ remote' = IF remote_usable /\ ok THEN EmptyMap ELSE remote

\* DocumentService._invalidate_cache()
invalidate_cache(ok) == CacheDelete("documents_list", ok)

\* how the remote delete of an invalidation can end; there is none to end when the
\* remote tier is not tried
InvalidateOutcomes == IF remote_usable THEN BOOLEAN ELSE {TRUE}

\* DocumentService.create_document: insert, commit, invalidate, enqueue index_document;
\* ~committed = `await self.db.commit()` raised, and the exception leaves the method
create_document ==
    /\ phase = "serving"
    /\ Len(docs) < MaxDocs
    /\ Len(tasks) < MaxTasks
    /\ \E b \in Bodies, committed \in BOOLEAN :
        /\ IF committed
           THEN /\ docs' = Append(docs, Row(b))
                /\ \E ok \in InvalidateOutcomes : invalidate_cache(ok)
           ELSE UNCHANGED <<docs, memory_cache, remote>>
        /\ tasks' = add_task(committed, NewTask("index", "create", Len(docs) + 1,
                                                b.title, b.content, <<Row(b)>>))
    /\ UNCHANGED apiVars
    /\ UNCHANGED <<phase, use_redis, redis, now, ticks, histVars, ragVars, vector_store,
                   api_key_ok, delRan>>

\* DocumentService.update_document on an active document: write, commit, invalidate,
\* enqueue index_document
update_document ==
    /\ phase = "serving"
    /\ Len(tasks) < MaxTasks
    /\ \E d \in 1..Len(docs), b \in Bodies, committed \in BOOLEAN :
        /\ get_document(d)
        /\ IF committed
           THEN /\ docs' = [docs EXCEPT ![d] = [@ EXCEPT !.title = b.title,
                                                         !.content = b.content]]
                /\ \E ok \in InvalidateOutcomes : invalidate_cache(ok)
           ELSE UNCHANGED <<docs, memory_cache, remote>>
        /\ tasks' = add_task(committed, NewTask("index", "update", d, b.title, b.content,
                                                <<Row(b)>>))
    /\ UNCHANGED apiVars
    /\ UNCHANGED <<phase, use_redis, redis, now, ticks, histVars, ragVars, vector_store,
                   api_key_ok, delRan>>

\* DocumentService.delete_document on an active document: soft delete, commit,
\* invalidate, enqueue delete_document_index
delete_document ==
    /\ phase = "serving"
    /\ Len(tasks) < MaxTasks
    /\ \E d \in 1..Len(docs), committed \in BOOLEAN :
        /\ get_document(d)
        /\ IF committed
           THEN /\ docs' = [docs EXCEPT ![d] = [@ EXCEPT !.is_active = FALSE]]
                /\ \E ok \in InvalidateOutcomes : invalidate_cache(ok)
           ELSE UNCHANGED <<docs, memory_cache, remote>>
        /\ tasks' = add_task(committed, NewTask("delete", "delete", d, "", <<>>, <<TRUE>>))
    /\ UNCHANGED apiVars
    /\ UNCHANGED <<phase, use_redis, redis, now, ticks, histVars, ragVars, vector_store,
                   api_key_ok, delRan>>

\* delete_document_index(d) has run to its end (its delete succeeded or was swallowed)
DeleteRan(d) ==
    \E x \in 1..Len(tasks) :
        tasks[x].kind = "delete" /\ tasks[x].doc_id = d /\ tasks[x].pc \in {"done", "failed"}

\* AgentService.index_document: from its start, or from a wake-up, to the end of one
\* `await run_in_threadpool(self.vector_store.add_documents, docs)`; ok = it succeeded
index_document ==
    /\ \E t \in 1..Len(tasks), ok \in BOOLEAN :
        /\ tasks[t].kind = "index"
        /\ tasks[t].pc = "run"
        /\ IF index_skips(t)
           THEN /\ tasks' = [tasks EXCEPT ![t] = [@ EXCEPT !.pc = "done"]]
                /\ UNCHANGED <<vector_store, delRan>>
           ELSE IF ok
           THEN /\ vector_store' = add_documents(t)
                /\ tasks' = [tasks EXCEPT ![t] =
                        [@ EXCEPT !.pc = "done", !.late = DeleteRan(tasks[t].doc_id),
                                  !.attempts = @ + 1]]
                /\ delRan' = [delRan EXCEPT ![tasks[t].doc_id] = "no"]
           ELSE /\ tasks' = [tasks EXCEPT ![t] =
                        after_failed_add([@ EXCEPT !.attempts = @ + 1])]
                /\ UNCHANGED <<vector_store, delRan>>
    /\ UNCHANGED apiVars
    /\ UNCHANGED <<cacheVars, histVars, ragVars, api_key_ok, docs>>

\* AgentService.index_document: `await asyncio.sleep(retry_delay)` is over (the sleep
\* ends at some later step; nothing else in SpecIndex reads the clock)
index_document_wake ==
    /\ \E t \in 1..Len(tasks) :
        /\ tasks[t].pc = "sleep"
        /\ tasks' = [tasks EXCEPT ![t] = [@ EXCEPT !.pc = "run", !.retry = @ + 1]]
    /\ UNCHANGED apiVars
    /\ UNCHANGED <<cacheVars, histVars, ragVars, vector_store, api_key_ok, docs, delRan>>

\* mutant: a failed delete is tried again, as the add of index_document is
delete_document_index_end_retries(task, ok) ==
    IF ok
    THEN [task EXCEPT !.pc = "done", !.attempts = @ + 1]
    ELSE [task EXCEPT !.pc = IF task.attempts < MAX_RETRIES - 1 THEN "run" ELSE "failed",
                      !.attempts = @ + 1]

\* the single try/except of delete_document_index: the delete is awaited once, a failure
\* is logged and the call returns
delete_document_index_end(task, ok) ==
    [task EXCEPT !.pc = IF ok THEN "done" ELSE "failed", !.attempts = @ + 1]

\* AgentService.delete_document_index: one vector_store.delete; ok = it succeeded
delete_document_index ==
    /\ \E t \in 1..Len(tasks), ok \in BOOLEAN :
        /\ tasks[t].kind = "delete"
        /\ tasks[t].pc = "run"
        /\ vector_store' = IF ok THEN delete_where(tasks[t].doc_id) ELSE vector_store
        /\ tasks' = [tasks EXCEPT ![t] = delete_document_index_end(@, ok)]
        /\ delRan' = [delRan EXCEPT ![tasks[t].doc_id] = IF ok THEN "ok" ELSE "failed"]
    /\ UNCHANGED apiVars
    /\ UNCHANGED <<cacheVars, histVars, ragVars, api_key_ok, docs>>

\* the process is serving, started without a Redis server (init_redis failed)
InitIndex ==
    /\ phase = "serving"
    /\ use_redis = FALSE
    /\ redis = FALSE
    /\ memory_cache = EmptyMap
    /\ remote = EmptyMap
    /\ now = 0
    /\ ticks = 0
    /\ lastOp = NoOp
    /\ lastSet = [k \in CacheKeys |-> NoSet]
    /\ remoteEverOK = FALSE
    /\ InitRagVars
    /\ InitApiVars
    /\ vector_store = {}
    /\ api_key_ok \in BOOLEAN
    /\ docs = <<>>
    /\ tasks = <<>>
    /\ delRan = [d \in 1..MaxDocs |-> "no"]

NextIndex ==
    \/ create_document
    \/ update_document
    \/ delete_document
    \/ index_document
    \/ index_document_wake
    \/ delete_document_index

SpecIndex == InitIndex /\ [][NextIndex]_vars

\* ------------------------------------------------ index tasks run to their end
\* the index tasks a create, or a create and an update after it, have enqueued
EnqueuedIndexTasks ==
    {<<NewTask("index", "create", 1, b.title, b.content, <<Row(b)>>)>> : b \in Bodies}
    \cup {<<NewTask("index", "create", 1, b.title, b.content, <<Row(b)>>),
            NewTask("index", "update", 1, u.title, u.content, <<Row(u)>>)>> :
                b \in Bodies, u \in Bodies}

\* the process is serving without Redis; one document has been created, and maybe
\* updated, and no index task has started yet
InitRetry ==
    /\ phase = "serving"
    /\ use_redis = FALSE
    /\ redis = FALSE
    /\ memory_cache = EmptyMap
    /\ remote = EmptyMap
    /\ now = 0
    /\ ticks = 0
    /\ lastOp = NoOp
    /\ lastSet = [k \in CacheKeys |-> NoSet]
    /\ remoteEverOK = FALSE
    /\ InitRagVars
    /\ InitApiVars
    /\ vector_store = {}
    /\ api_key_ok \in BOOLEAN
    /\ tasks \in EnqueuedIndexTasks
    /\ docs = <<Row([title |-> tasks[Len(tasks)].title, content |-> tasks[Len(tasks)].content])>>
    /\ delRan = [d \in 1..MaxDocs |-> "no"]

NextRetry == index_document \/ index_document_wake

\* the event loop resumes every task that can run, and every asyncio.sleep ends
SpecRetry ==
    InitRetry /\ [][NextRetry]_vars /\ WF_vars(index_document) /\ WF_vars(index_document_wake)

\* ------------------------------------------- document writes and cached answers
\* the answer an earlier rag_qa("q1") cached at time 0: it cites the stored chunk
CachedAnswer ==
    [value |-> Dumps([response |-> "a1", sources |-> sources_of(<<Chunk(0, 1, 1, "t1", TextX)>>)]),
     expire_at |-> RAG_TTL]

\* a tier that holds nothing, or the cached answer to "q1"
TierStates == {EmptyMap, Put(EmptyMap, cache_key("q1"), CachedAnswer)}

\* the process is serving, with or without Redis; each tier holds the answer an
\* earlier rag_qa("q1") cached or nothing; the documents table is empty, or holds the
\* document the stored chunk was indexed from
InitWrites ==
    /\ phase = "serving"
    /\ use_redis \in BOOLEAN
    /\ redis = use_redis
    /\ memory_cache \in TierStates
    /\ remote \in TierStates
    /\ (~use_redis => remote = EmptyMap)
    /\ now = 0
    /\ ticks = 0
    /\ lastOp = NoOp
    /\ lastSet = [k \in RagKeys |->
            IF k \in DOMAIN memory_cache \/ k \in DOMAIN remote
            THEN [NoSet EXCEPT !.present = TRUE, !.until = RAG_TTL] ELSE NoSet]
    /\ remoteEverOK = FALSE
    /\ InitRagVars
    /\ InitApiVars
    /\ api_key_ok = TRUE
    /\ tasks = <<>>
    /\ delRan = [d \in 1..MaxDocs |-> "no"]
    /\ \/ docs = <<>> /\ vector_store = {}
       \/ /\ docs = <<[title |-> "t1", content |-> <<TextX>>, is_active |-> TRUE]>>
          /\ vector_store = StoredChunks

\* the document writes, and the cache lookups of rag_qa calls, in any order
NextWrites ==
    \/ create_document
    \/ update_document
    \/ delete_document
    \/ rag_lookup

SpecWrites == InitWrites /\ [][NextWrites]_vars

\* ------------------------------------------------------- the /documents reads
\* ids a request can name: those of the table and one past them
DocIds == 1..(MaxDocs + 1)

\* the text of a document as one string
RECURSIVE Flatten(_)
Flatten(content) ==
    IF content = <<>> THEN <<>> ELSE Head(content) \o Flatten(Tail(content))

\* `func.substr(Document.content, 1, 200)`
SUMMARY_LEN == 200
\* `expire=300` of the cache write of list_documents
LIST_TTL == 300

\* a row of the list query: id, title and the head of the content
Summary(d) ==
    [id |-> d, title |-> docs[d].title,
     content |-> FirstChars(Flatten(docs[d].content), SUMMARY_LEN)]

\* the list query: the summaries of the rows `where(Document.is_active == True)` (the
\* table of the model keeps no updated_at, the order of the rows is left out)
list_query == {Summary(d) : d \in {x \in 1..Len(docs) : docs[x].is_active}}

\* json.dumps(docs_data) and json.loads(cached_docs)
ListDumps(rows) == <<"json", rows>>
ListLoads(str) == str[2]

\* the parameters of CacheManager.set(self, key, value, ex=None)
CacheManagerSetParams == {"key", "value", "ex"}

\* the call set("documents_list", ..., <kw>=300) binds its arguments; when it does not,
\* Python raises TypeError before the body of set runs
set_call_binds(kw) == kw \in CacheManagerSetParams

\* the cache write of list_documents after a miss, inside its try/except: the keyword
\* the call passes is `expire`; okget and okset = the remote read and write did not raise
list_documents_cache_write(okget, okset) ==
    IF set_call_binds("expire")
    THEN /\ memory_cache' =
                IF remote_usable /\ okset
                THEN get_memory("documents_list", okget)
                ELSE Put(get_memory("documents_list", okget), "documents_list",
                         [value |-> ListDumps(list_query),
                          expire_at |-> expire_at_of(LIST_TTL)])
         /\ remote' = set_remote("documents_list", ListDumps(list_query), LIST_TTL, okset)
    ELSE CacheGet("documents_list", okget)

\* DocumentService.list_documents as a step of the request req0: the rows returned,
\* from the cache on a hit, from the table on a miss
list_documents_call(req0, op, status, okget, okset) ==
    LET cached == get_result("documents_list", okget)
        base == [req0 EXCEPT !.op = op, !.id = 0, !.status = status,
                             !.afterMiss = (req0.missAt = Len(tasks))]
    IN  IF cached # None
        THEN /\ CacheGet("documents_list", okget)
             /\ req' = [base EXCEPT !.result = ListLoads(cached), !.queried = FALSE]
        ELSE /\ list_documents_cache_write(okget, okset)
             /\ req' = [base EXCEPT !.result = list_query, !.queried = TRUE,
                                    !.missAt = Len(tasks)]

\* DocumentService.list_documents, called on the service
list_documents ==
    /\ phase = "serving"
    /\ \E okget \in InvalidateOutcomes, okset \in InvalidateOutcomes :
        list_documents_call(req, "list", 200, okget, okset)
    /\ UNCHANGED <<completion, bootVars, storeVars>>
    /\ UNCHANGED <<phase, use_redis, redis, now, ticks, histVars, ragVars, indexVars>>

\* the methods of DocumentService and of BaseService
DocumentServiceMethods ==
    {"__init__", "create_document", "get_document", "update_document", "list_documents",
     "delete_document", "_invalidate_cache"}

\* GET /documents/: `return await doc_service.get_all_documents()`; an attribute the
\* service does not have raises AttributeError, which FastAPI answers with 500
list_documents_route ==
    /\ phase = "serving"
    /\ IF "get_all_documents" \in DocumentServiceMethods
       THEN \E okget \in InvalidateOutcomes, okset \in InvalidateOutcomes :
                list_documents_call(req, "route_list", 200, okget, okset)
       ELSE /\ req' = [req EXCEPT !.op = "route_list", !.id = 0, !.status = 500,
                                  !.result = {}, !.queried = FALSE, !.afterMiss = FALSE]
            /\ UNCHANGED <<memory_cache, remote>>
    /\ UNCHANGED <<completion, bootVars, storeVars>>
    /\ UNCHANGED <<phase, use_redis, redis, now, ticks, histVars, ragVars, indexVars>>

\* GET /documents/{doc_id}: the row, or 404 when get_document returns None
get_document_route ==
    /\ phase = "serving"
    /\ \E d \in DocIds :
        req' = IF get_document(d)
               THEN [req EXCEPT !.op = "get", !.id = d, !.status = 200,
                                !.result = {docs[d]}, !.queried = TRUE, !.afterMiss = FALSE]
               ELSE [req EXCEPT !.op = "get", !.id = d, !.status = 404,
                                !.result = {}, !.queried = TRUE, !.afterMiss = FALSE]
    /\ UNCHANGED <<completion, bootVars, storeVars>>
    /\ UNCHANGED <<cacheVars, histVars, ragVars, indexVars>>

\* mutant: the `if not doc` return is missing and the delete task is enqueued
not_found_enqueues(d) ==
    [docs |-> docs,
     tasks |-> IF Len(tasks) < MaxTasks
               THEN Append(tasks, NewTask("delete", "delete", d, "", <<>>, <<TRUE>>))
               ELSE tasks,
     memory_cache |-> memory_cache, remote |-> remote]

\* update_document and delete_document after `if not doc: return`: nothing is
\* committed, invalidated or enqueued
not_found(d) ==
    [docs |-> docs, tasks |-> tasks, memory_cache |-> memory_cache, remote |-> remote]

\* the request of a write whose get_document returned None: the route raises
\* HTTPException(404) before it adds its log task
not_found_request(op, d) ==
    /\ ~get_document(d)
    /\ docs' = not_found(d).docs
    /\ tasks' = not_found(d).tasks
    /\ memory_cache' = not_found(d).memory_cache
    /\ remote' = not_found(d).remote
    /\ req' = [req EXCEPT !.op = op, !.id = d, !.status = 404, !.result = {},
                          !.queried = TRUE, !.afterMiss = FALSE]

\* PUT /documents/{doc_id} for an id get_document does not find
update_document_not_found ==
    /\ phase = "serving"
    /\ \E d \in DocIds : not_found_request("update", d)
    /\ UNCHANGED <<completion, bootVars, storeVars>>
    /\ UNCHANGED <<phase, use_redis, redis, now, ticks, histVars, ragVars, vector_store,
                   api_key_ok, delRan>>

\* DELETE /documents/{doc_id} for an id get_document does not find
delete_document_not_found ==
    /\ phase = "serving"
    /\ \E d \in DocIds : not_found_request("delete", d)
    /\ UNCHANGED <<completion, bootVars, storeVars>>
    /\ UNCHANGED <<phase, use_redis, redis, now, ticks, histVars, ragVars, vector_store,
                   api_key_ok, delRan>>

\* the process is serving, with or without Redis; the table and both tiers are empty
InitList ==
    /\ phase = "serving"
    /\ use_redis \in BOOLEAN
    /\ redis = use_redis
    /\ memory_cache = EmptyMap
    /\ remote = EmptyMap
    /\ now = 0
    /\ ticks = 0
    /\ lastOp = NoOp
    /\ lastSet = [k \in CacheKeys |-> NoSet]
    /\ remoteEverOK = FALSE
    /\ InitRagVars
    /\ InitApiVars
    /\ InitIndexVars

NextList ==
    \/ create_document
    \/ update_document
    \/ delete_document
    \/ update_document_not_found
    \/ delete_document_not_found
    \/ get_document_route
    \/ list_documents
    \/ list_documents_route

SpecList == InitList /\ [][NextList]_vars

\* ==================================================================== claims
\* ------------------------------------------------------------ SpecCache
\* C3: with the remote tier permanently unreachable (never connected, or connected and
\* every remote get/set/delete raising), a get(k) after set(k, v, ttl), before the ttl
\* has elapsed and with no later set or delete of k, returns v.
C3_FallbackServesSetValue ==
    \A k \in CacheKeys :
        (/\ lastOp.op = "get"
         /\ lastOp.key = k
         /\ ~remoteEverOK
         /\ lastSet[k].present
         /\ (lastSet[k].until = Inf \/ lastOp.at < lastSet[k].until))
        => lastOp.result = lastSet[k].value

\* C3 witness: connected, every remote call raised, and a get inside the ttl returned
\* the value set
C3_Witness ==
    /\ lastOp.op = "get"
    /\ lastOp.remote = "raised"
    /\ ~remoteEverOK
    /\ lastSet[lastOp.key].present
    /\ lastSet[lastOp.key].until # Inf
    /\ lastOp.at < lastSet[lastOp.key].until
    /\ lastOp.result = lastSet[lastOp.key].value
    /\ lastOp.result # None

\* C4: on the fallback tier alone, a get(k) issued more than t seconds after
\* set(k, v, ttl=t), t > 0, returns absent and leaves no entry for k in
\* _memory_cache (so no later get finds one).
C4_ExpiredEntryPurged ==
    \A k \in CacheKeys :
        (/\ lastOp.op = "get"
         /\ lastOp.key = k
         /\ ~use_redis
         /\ lastSet[k].present
         /\ lastSet[k].until # Inf
         /\ lastOp.at > lastSet[k].until)
        => (lastOp.result = None /\ k \notin DOMAIN memory_cache)

\* C4 witness: such a get has happened
C4_Witness ==
    /\ lastOp.op = "get"
    /\ ~use_redis
    /\ lastSet[lastOp.key].present
    /\ lastSet[lastOp.key].until # Inf
    /\ lastOp.at > lastSet[lastOp.key].until
    /\ lastOp.result = None
    /\ lastOp.key \notin DOMAIN memory_cache

\* C5: after any set(k, v, ttl) has returned, _memory_cache holds v under k (whether
\* the remote tier is unusable, the remote write succeeded, or it failed).
C5_SetAlwaysWritesFallback ==
    (phase = "serving" /\ lastOp.op = "set")
    => /\ lastOp.key \in DOMAIN memory_cache
       /\ memory_cache[lastOp.key].value = lastSet[lastOp.key].value

\* C6: if set(k, v, ttl) was performed while the remote tier was healthy and every
\* remote call since has failed, a get(k) within the ttl returns v.
C6_FlapKeepsHotData ==
    \A k \in CacheKeys :
        (/\ lastOp.op = "get"
         /\ lastOp.key = k
         /\ lastOp.remote = "raised"
         /\ lastSet[k].present
         /\ lastSet[k].remoteOK
         /\ ~lastSet[k].okAfter
         /\ (lastSet[k].until = Inf \/ lastOp.at < lastSet[k].until))
        => lastOp.result = lastSet[k].value

\* C7: a get(k) whose remote read raised propagates nothing and returns what the
\* fallback tier yields for k: its unexpired value, or absent (an expired entry has
\* been removed by that get).
C7_GetFallsThroughOnRemoteError ==
    (/\ phase = "serving"
     /\ lastOp.op = "get"
     /\ lastOp.remote = "raised"
     /\ lastOp.at = now)
    => /\ lastOp.result =
            (IF lastOp.key \in DOMAIN memory_cache
             THEN memory_cache[lastOp.key].value ELSE None)
       /\ lastOp.key \in DOMAIN memory_cache
            => (\/ memory_cache[lastOp.key].expire_at = Inf
                \/ now <= memory_cache[lastOp.key].expire_at)

\* C7 witness: a get whose remote read raised returned the value held in memory
C7_Witness ==
    /\ phase = "serving"
    /\ lastOp.op = "get"
    /\ lastOp.remote = "raised"
    /\ lastOp.at = now
    /\ lastOp.result # None
    /\ lastOp.result = memory_cache[lastOp.key].value

\* C8: a get(k) whose remote read completed without error and found nothing returns
\* the unexpired value the fallback tier holds for k, if there is one.
C8_RemoteMissConsultsFallback ==
    (/\ phase = "serving"
     /\ lastOp.op = "get"
     /\ lastOp.remote = "ok"
     /\ lastOp.at = now
     /\ remote_read(lastOp.key) = None
     /\ lastOp.key \in DOMAIN memory_cache
     /\ ~memory_expired(lastOp.key))
    => lastOp.result = memory_cache[lastOp.key].value

\* -------------------------------------------------------------- SpecRag
ApologyResult == [response |-> APOLOGY, sources |-> <<>>]

\* C1: a rag_qa(q) that looks the cache up after an earlier rag_qa(q) has cached its
\* answer and returned, less than 3600 s before and with no delete since, is answered
\* from the cache alone: it invokes neither the search nor the model.
C1_SecondCallServedFromCache ==
    \A c \in 1..MaxCalls :
        (calls[c].pc # "idle" /\ calls[c].fresh)
        => (calls[c].pc = "done" /\ calls[c].hit
            /\ ~calls[c].searched /\ ~calls[c].generated)

\* C2: rag_qa never propagates an exception; a call whose search or model call raised
\* returns the fixed apology with no sources, and while the search or the model has
\* raised on every invocation every call returns it.
C2_RagFailSoft ==
    \A c \in 1..MaxCalls :
        Done(c) =>
            /\ ~calls[c].raised
            /\ calls[c].failed # "" => calls[c].result = ApologyResult
            /\ (~searchEverOK \/ ~llmEverOK) => calls[c].result = ApologyResult

\* C2 witness: one call has failed in the search and one in the model call, the model
\* never having answered
C2_Witness ==
    /\ ~llmEverOK
    /\ \E c \in 1..MaxCalls :
        Done(c) /\ calls[c].failed = "search" /\ calls[c].result = ApologyResult
    /\ \E c \in 1..MaxCalls :
        Done(c) /\ calls[c].failed = "llm" /\ calls[c].result = ApologyResult

\* -------------------------------------------------------------- SpecChat
\* C17: POST /chat never ends in a 5xx when the model or the vector index fails, with
\* use_rag true and with use_rag false: every finished request is answered 200 with a
\* {response, sources} payload.
C17_ChatNeverFails ==
    \A c \in 1..MaxCalls :
        Done(c) =>
            /\ chat_with_agent_response(c).status = 200
            /\ DOMAIN chat_with_agent_response(c).body = {"response", "sources"}

\* ------------------------------------------------------------ SpecIndex
\* a similarity search returns stored chunks, and any stored chunk is returned for
\* some query: the chunks of document d a search can return
Retrievable(d) == {c \in vector_store : c.doc_id = d}

\* the index task t has added its chunks
Added(t) == tasks[t].kind = "index" /\ tasks[t].pc = "done" /\ ~index_skips(t)

C10_StaleVectorsByLateAdd ==
    \A d \in 1..Len(docs) :
        (/\ ~docs[d].is_active
         /\ \E x \in 1..Len(tasks) :
                tasks[x].kind = "delete" /\ tasks[x].doc_id = d /\ tasks[x].pc = "done"
         /\ Retrievable(d) # {})
        => \E t \in 1..Len(tasks) :
                /\ Added(t)
                /\ tasks[t].doc_id = d
                /\ tasks[t].late
                /\ docs_of(t) \subseteq vector_store

\* C10 witness: every task has finished, the delete task of a soft-deleted document
\* succeeded, and the index task of an earlier update, having slept between retries,
\* added its vectors afterwards: they are still in the index
C10_Witness ==
    /\ \A x \in 1..Len(tasks) : tasks[x].pc \in {"done", "failed"}
    /\ \E t \in 1..Len(tasks) :
        /\ Added(t)
        /\ tasks[t].origin = "update"
        /\ tasks[t].retry >= 1
        /\ tasks[t].late
        /\ ~docs[tasks[t].doc_id].is_active
        /\ \E x \in 1..Len(tasks) :
                /\ tasks[x].kind = "delete"
                /\ tasks[x].doc_id = tasks[t].doc_id
                /\ tasks[x].pc = "done"
        /\ docs_of(t) # {}
        /\ docs_of(t) \subseteq vector_store

\* C11: once the index task of the latest update of a document has added its chunks and
\* no other task of that document is in flight, the index holds for that doc_id only
\* the chunks of the latest content, none of an earlier version.
C11_ReindexReplacesChunks ==
    \A t \in 1..Len(tasks) :
        (/\ Added(t)
         /\ tasks[t].origin = "update"
         /\ docs[tasks[t].doc_id].is_active
         /\ \A x \in 1..Len(tasks) :
                tasks[x].doc_id = tasks[t].doc_id
                => (x <= t /\ tasks[x].pc \in {"done", "failed"}))
        => \A c \in Retrievable(tasks[t].doc_id) :
                \E n \in docs_of(t) :
                    c.page_content = n.page_content /\ c.source = n.source

\* C12: an index task whose add failed on every attempt has made the initial attempt
\* and 3 retries, having waited 2 s, 4 s and 8 s before them.
C12_ThreeRetriesBackoff ==
    \A t \in 1..Len(tasks) :
        (tasks[t].kind = "index" /\ tasks[t].pc = "failed")
        => (tasks[t].attempts = 1 + MAX_RETRIES /\ tasks[t].slept = <<2, 4, 8>>)

\* C13: index_document never propagates an exception, and a call whose every add
\* attempt failed has ended with none of its chunks in the vector store.
C13_IndexFailSoft ==
    \A t \in 1..Len(tasks) :
        tasks[t].kind = "index" =>
            /\ ~tasks[t].raised
            /\ tasks[t].pc = "failed" => \A c \in vector_store : c.id[1] # t

\* C13 witness: an index task has ended after its last attempt failed
C13_Witness ==
    \E t \in 1..Len(tasks) :
        /\ tasks[t].kind = "index"
        /\ tasks[t].pc = "failed"
        /\ tasks[t].attempts = MAX_RETRIES
        /\ ~tasks[t].raised
        /\ \A c \in vector_store : c.id[1] # t

\* C19: every stored chunk was handed over by an index task with doc_id equal to the
\* id of the task's document and source equal to its title, so each stored vector has
\* the doc_id of a document and a delete by that doc_id removes it.
C19_ChunksStamped ==
    \A c \in vector_store :
        /\ c.id[1] \in 1..Len(tasks)
        /\ tasks[c.id[1]].kind = "index"
        /\ c.doc_id = tasks[c.id[1]].doc_id
        /\ c.source = tasks[c.id[1]].title
        /\ c.doc_id \in 1..Len(docs)
        /\ c \notin delete_where(c.doc_id)

\* C19 witness: an index task has stored the two chunks of its content
C19_Witness ==
    \E t \in 1..Len(tasks) :
        /\ Added(t)
        /\ Cardinality(docs_of(t)) = 2
        /\ docs_of(t) \subseteq vector_store
        /\ \A c \in docs_of(t) : c.doc_id = tasks[t].doc_id /\ c.source = tasks[t].title

\* C20: an index_document call on a document with no content (no chunk) makes no add
\* call, changes nothing but its own completion, and ends without an error.
C20_EmptyContentNoOp ==
    [][\A t \in 1..Len(tasks) :
        (/\ tasks[t].kind = "index"
         /\ tasks[t].pc = "run"
         /\ docs_of(t) = {}
         /\ tasks'[t] # tasks[t])
        => (/\ tasks' = [tasks EXCEPT ![t] = [@ EXCEPT !.pc = "done"]]
            /\ tasks'[t].attempts = 0
            /\ ~tasks'[t].raised
            /\ UNCHANGED <<vector_store, docs, delRan, cacheVars>>)]_vars

\* C20 witness: with a valid API key, the index task of an empty document has ended
\* without an add attempt while another document's chunks are stored
C20_Witness ==
    /\ api_key_ok
    /\ \E t \in 1..Len(tasks) :
        /\ tasks[t].kind = "index"
        /\ tasks[t].content = <<>>
        /\ tasks[t].pc = "done"
        /\ tasks[t].attempts = 0
        /\ tasks[t].slept = <<>>
        /\ \A c \in vector_store : c.id[1] # t

\* ----------------------------------------------------------- SpecWrites
\* the entry a tier holds under k, if any
Entry(f, k) == IF k \in DOMAIN f THEN <<f[k]>> ELSE <<>>

\* C18: create_document, update_document and delete_document leave every
\* "rag:response:*" entry of both tiers unchanged, so the lookup of rag_qa reads after
\* the write what it read before it: a cached answer is still returned once its source
\* document has been edited or deleted.
C18_WritesKeepRagAnswers ==
    [][(docs' # docs \/ Len(tasks') > Len(tasks)) =>
        \A k \in RagKeys :
            /\ Entry(memory_cache', k) = Entry(memory_cache, k)
            /\ Entry(remote', k) = Entry(remote, k)
            /\ \A ok \in BOOLEAN : get_result(k, ok)' = get_result(k, ok)]_vars

\* C18 witness: after the document an answer cites was deleted, and with a write
\* enqueued, a rag_qa call returned that answer from the cache
C18_Witness ==
    \E c \in 1..MaxCalls :
        /\ Done(c)
        /\ calls[c].hit
        /\ calls[c].stale
        /\ calls[c].result.sources # <<>>
        /\ Len(tasks) >= 1
        /\ \A d \in 1..Len(docs) : ~docs[d].is_active

\* ------------------------------------------------------- SpecCompletion
\* the inference call of the request served failed: no response, a non-2xx status, a
\* body that is not JSON, or a JSON body with no text where the formats put it
InferenceFailed ==
    /\ completion.resp # NoResponse
    /\ \/ completion.resp.kind # "json"
       \/ extract_text(completion.resp.result).raised
       \/ extract_text(completion.resp.result).value.t # "str"
       \/ /\ "choices" \notin DOMAIN completion.resp.result.v
          /\ "content" \notin DOMAIN completion.resp.result.v

\* the raw model output of the request served, when the inference call yielded one
HasRaw ==
    /\ completion.pc = "done"
    /\ completion.resp # NoResponse
    /\ ~InferenceFailed

Raw == extract_text(completion.resp.result).value.v

\* C14: whenever the inference call failed, complete_text returned the empty string and
\* raised nothing, so POST /completion answered 200 with completion ""; no request is
\* answered with an HTTP error status.
C14_CompletionFailSoft ==
    completion.pc = "done" =>
        /\ completion.status = 200
        /\ InferenceFailed => completion.completion = <<>>

\* C14 witness: a request whose inference call got a null text in the choice was
\* answered 200 with the empty completion
C14_Witness ==
    /\ completion.pc = "done"
    /\ completion.calls = 1
    /\ completion.resp = [kind |-> "json",
                          result |-> JObj([choices |-> JList(<<JObj([text |-> JNull])>>)])]
    /\ InferenceFailed
    /\ completion.status = 200
    /\ completion.completion = <<>>

\* C15: for every raw model output r, the completion is the longest prefix of
\* lstrip(r) with no boundary character: it does not start with whitespace, holds no
\* boundary character, and is empty when lstrip(r) starts with a boundary character.
C15_FirstClauseOnly ==
    HasRaw =>
        \E k \in 0..Len(Raw), n \in 0..Len(Raw) :
            /\ k + n <= Len(Raw)
            /\ \A i \in 1..k : Raw[i] \in Whitespace
            /\ k < Len(Raw) => Raw[k + 1] \notin Whitespace
            /\ completion.completion = SubSeq(Raw, k + 1, k + n)
            /\ \A i \in (k + 1)..(k + n) : Raw[i] \notin Boundary
            /\ k + n < Len(Raw) => Raw[k + n + 1] \in Boundary
            /\ n > 0 => completion.completion[1] \notin Whitespace
            /\ (k < Len(Raw) /\ Raw[k + 1] \in Boundary) => completion.completion = <<>>

\* C15 witness: the raw output " a," was cut down to "a"
C15_Witness ==
    /\ HasRaw
    /\ "choices" \in DOMAIN completion.resp.result.v
    /\ Raw = <<" ", "a", ",">>
    /\ completion.completion = <<"a">>

\* C16: a POST /completion with an empty prefix is answered {completion: ""} without a
\* call of complete_text (no request to the inference endpoint), whatever the suffix.
C16_EmptyPrefixShortCircuit ==
    (completion.pc # "idle" /\ completion.prefix = <<>>) =>
        /\ completion.pc = "done"
        /\ completion.calls = 0
        /\ completion.resp = NoResponse
        /\ completion.status = 200
        /\ completion.completion = <<>>

\* C16 witness: a request with an empty prefix and a suffix has been answered
C16_Witness ==
    /\ completion.pc = "done"
    /\ completion.prefix = <<>>
    /\ completion.suffix # <<>>
    /\ completion.calls = 0
    /\ completion.status = 200
    /\ completion.completion = <<>>

\* ------------------------------------------------------ SpecCache, continued
\* C21: delete(k) raises nothing, also when the remote delete failed, and leaves no
\* entry for k in _memory_cache; a get(k) that follows it without reaching the remote
\* tier (and with no set of k in between) returns absent.
C21_DeleteBestEffort ==
    /\ (phase = "serving" /\ lastOp.op = "delete")
        => (lastOp.result = None /\ lastOp.key \notin DOMAIN memory_cache)
    /\ (/\ lastOp.op = "get"
        /\ lastOp.remote \in {"raised", "skipped"}
        /\ ~lastSet[lastOp.key].present)
        => lastOp.result = None

\* C21 witness: a delete whose remote delete raised has returned: Redis still holds
\* the key, _memory_cache does not
C21_Witness ==
    /\ phase = "serving"
    /\ lastOp.op = "delete"
    /\ lastOp.remote = "raised"
    /\ lastOp.key \in DOMAIN remote
    /\ lastOp.key \notin DOMAIN memory_cache
    /\ memory_cache # EmptyMap

C22_FailedInitDisablesRemote ==
    boot.redis = "failed"
        => /\ phase \in {"init_db", "serving", "closed"}
           /\ ~use_redis
           /\ ~redis
           /\ remote = EmptyMap
           /\ lastOp.remote = "skipped"

\* C22 witness: after a failed init_redis the process serves and a set has stored its
\* value in the fallback tier without trying Redis
C22_Witness ==
    /\ boot.redis = "failed"
    /\ phase = "serving"
    /\ lastOp.op = "set"
    /\ lastOp.remote = "skipped"
    /\ lastOp.key \in DOMAIN memory_cache
    /\ ~use_redis
    /\ ~redis

\* C26: when init_db raised during startup, the process never enters the serving
\* state (while a failed init_redis does not prevent serving).
C26_DbFailureIsFatal ==
    boot.db = "failed" => phase \notin {"serving", "closed"}

\* ----------------------------------------------------------------- SpecStore
\* C24: under every interleaving of the threads calling get_vector_store, Chroma is
\* constructed at most once and all callers are handed the same instance.
C24_ConstructOnce ==
    /\ constructed <= 1
    /\ \A t, u \in 1..MaxThreads :
        (workers[t].pc = "done" /\ workers[u].pc = "done")
            => workers[t].returned = workers[u].returned

\* ------------------------------------------------------ SpecIndex, continued
\* C25: a write request adds its index or delete task only once its commit has gone
\* through (the row the task is about is then in the table as written), and the value
\* the request returned is fixed when the task is added: no step of any task, ending
\* well or not, changes it.
C25_IndexingDetached ==
    [][\A t \in 1..Len(tasks') :
        IF t <= Len(tasks)
        THEN tasks'[t].response = tasks[t].response
        ELSE /\ tasks'[t].doc_id \in 1..Len(docs')
             /\ tasks'[t].pc = "run"
             /\ tasks'[t].attempts = 0
             /\ IF tasks'[t].kind = "index"
                THEN /\ tasks'[t].response = <<docs'[tasks'[t].doc_id]>>
                     /\ docs'[tasks'[t].doc_id].title = tasks'[t].title
                     /\ docs'[tasks'[t].doc_id].content = tasks'[t].content
                     /\ docs'[tasks'[t].doc_id].is_active
                ELSE /\ tasks'[t].response = <<TRUE>>
                     /\ ~docs'[tasks'[t].doc_id].is_active]_vars

\* C25 witness: the create request of a document returned its row, and the index task
\* it had enqueued failed afterwards on every attempt: the row is in the table, no
\* chunk of it is in the index
C25_Witness ==
    \E t \in 1..Len(tasks) :
        /\ tasks[t].origin = "create"
        /\ tasks[t].pc = "failed"
        /\ tasks[t].attempts = MAX_RETRIES
        /\ tasks[t].response = <<docs[tasks[t].doc_id]>>
        /\ Retrievable(tasks[t].doc_id) = {}

\* ------------------------------------------------------- SpecChat, continued
\* C27: a POST /chat with use_rag false makes one model call and nothing else: each of
\* its steps leaves both cache tiers and the vector store as they are, it never looks
\* the cache up nor searches, its only await is the one llm.ainvoke of ask_ai, and its
\* answer carries no sources.
C27_PlainModeOnlyGenerates ==
    [][\A c \in 1..MaxCalls :
        (~calls'[c].use_rag /\ calls'[c] # calls[c])
        => /\ UNCHANGED <<memory_cache, remote, vector_store>>
           /\ ~calls'[c].hit
           /\ ~calls'[c].searched
           /\ calls'[c].docs = calls[c].docs
           /\ \/ /\ calls[c].pc = "idle"
                 /\ calls'[c].pc = "ask_ai"
                 /\ ~calls'[c].generated
              \/ /\ calls[c].pc = "ask_ai"
                 /\ ~calls[c].generated
                 /\ calls'[c].pc = "done"
                 /\ calls'[c].generated
                 /\ \/ calls'[c].raised /\ calls'[c].result = NoResult
                    \/ ~calls'[c].raised /\ calls'[c].result.sources = None]_vars

\* C27 witness: a plain request has been answered by the model, with no sources, next to
\* a retrieval request that searched and cached its answer
C27_Witness ==
    \E c, r \in 1..MaxCalls :
        /\ Done(c)
        /\ ~calls[c].use_rag
        /\ calls[c].generated
        /\ ~calls[c].raised
        /\ ~calls[c].searched
        /\ ~calls[c].hit
        /\ chat_with_agent_response(c).status = 200
        /\ chat_with_agent_response(c).body.sources = None
        /\ Done(r)
        /\ calls[r].use_rag
        /\ calls[r].searched
        /\ memory_cache # EmptyMap

\* -------------------------------------------------- SpecCompletion, continued
\* C28: the prompt complete_text sends embeds the last min(len(prefix), 1000)
\* characters of prefix and the first min(len(suffix), 200) characters of suffix.
C28_PromptKeepsThousand ==
    completion.calls = 1 =>
        /\ completion.prompt.prefix =
                LastChars(completion.prefix, Min(Len(completion.prefix), 1000))
        /\ completion.prompt.suffix =
                FirstChars(completion.suffix, Min(Len(completion.suffix), 200))

\* --------------------------------------------------------------- SpecSources
\* the place of the first chunk titled title in the retrieval ranking ds
FirstWith(ds, title) ==
    CHOOSE j \in 1..Len(ds) :
        ds[j].source = title /\ \A k \in 1..(j - 1) : ds[k].source # title

\* src lists the titles of ds once each, in the order of their first chunk, each with
\* the first 100 characters of that chunk (and the "..." the code puts after them)
GoodSources(ds, src) ==
    /\ Len(src) <= 3
    /\ \A i, j \in 1..Len(src) : i # j => src[i].title # src[j].title
    /\ {src[i].title : i \in 1..Len(src)} = {ds[j].source : j \in 1..Len(ds)}
    /\ \A i, j \in 1..Len(src) :
        i < j => FirstWith(ds, src[i].title) < FirstWith(ds, src[j].title)
    /\ \A i \in 1..Len(src) :
        LET text == ds[FirstWith(ds, src[i].title)].page_content
        IN  /\ Len(src[i].content) = Min(100, Len(text)) + 3
            /\ \A n \in 1..Min(100, Len(text)) : src[i].content[n] = text[n]
            /\ \A n \in 1..3 : src[i].content[Min(100, Len(text)) + n] = "."

\* C29: every rag_qa miss that ends well returns (and caches) at most 3 sources, no
\* title twice, in the order of the titles' first occurrence in the retrieval ranking,
\* each preview being the first 100 characters of the first chunk with that title.
C29_SourcesDeduplicated ==
    [][\A c \in 1..MaxCalls :
        (/\ calls[c].pc = "generate"
         /\ calls'[c].pc = "done"
         /\ calls'[c].failed = "")
        => /\ GoodSources(calls[c].docs, calls'[c].result.sources)
           /\ memory_cache'[cache_key(calls[c].query)].value = Dumps(calls'[c].result)]_vars

\* C29 witness: with four chunks stored, three were retrieved, the long chunk of "t2"
\* first and then the two of "t1": the answer cites "t2" with a preview cut at 100
\* characters and "t1" once, with the text of the chunk ranked higher
C29_Witness ==
    /\ vector_store = RichChunks
    /\ Done(1)
    /\ ~calls[1].hit
    /\ calls[1].failed = ""
    /\ Len(calls[1].result.sources) = 2
    /\ calls[1].result.sources[1].title = "t2"
    /\ Len(calls[1].result.sources[1].content) = PREVIEW_LEN + 3
    /\ calls[1].result.sources[2] = [title |-> "t1", content |-> <<"y", ".", ".", ".">>]

\* ------------------------------------------------------ SpecCache, again
\* C35: get, set and delete leave use_redis and the client handle as they are, also
\* when their remote call raised (so the next call tries Redis again); after startup
\* no step assigns either field.
C35_CallsKeepTierMode ==
    [][phase # "boot" => UNCHANGED <<use_redis, redis>>]_vars

\* C35 witness: a remote call raised, and the call after it reached Redis and succeeded
C35_Witness ==
    /\ phase = "serving"
    /\ use_redis
    /\ redis
    /\ lastOp.op = "get"
    /\ lastOp.remote = "ok"
    /\ lastOp.result # None
    /\ \E k \in CacheKeys :
        lastSet[k].present /\ ~lastSet[k].remoteOK /\ lastSet[k].okAfter

\* C37: a get(k) never returns a value older than the one written by the most recent
\* completed set(k, .): it returns that value or nothing.
C37_NoStaleRead ==
    \A k \in CacheKeys :
        (lastOp.op = "get" /\ lastOp.key = k /\ lastSet[k].present)
        => lastOp.result \in {None, lastSet[k].value}

\* ----------------------------------------------------------------- SpecRetry
\* the index task t has ended
Ended(t) == tasks[t].pc \in {"done", "failed"}

\* C36: the retry loop of index_document ends, after at most 3 add attempts; it sleeps
\* only between two attempts (never after a success, never after the last failure),
\* stops at the first add that succeeds, and so stores its chunks at most once.
C36_RetryLoopTerminates ==
    /\ [](\A t \in 1..Len(tasks) :
            /\ tasks[t].attempts <= 3
            /\ Len(tasks[t].slept) <= tasks[t].attempts
            /\ tasks[t].pc = "sleep" =>
                    (Len(tasks[t].slept) = tasks[t].attempts /\ tasks[t].attempts < 3)
            /\ tasks[t].pc = "failed" =>
                    (tasks[t].attempts = 3 /\ Len(tasks[t].slept) = 2)
            /\ (tasks[t].pc = "done" /\ tasks[t].attempts > 0) =>
                    Len(tasks[t].slept) = tasks[t].attempts - 1)
    /\ [][\A t \in 1..Len(tasks) :
            /\ Ended(t) => tasks'[t] = tasks[t]
            /\ (docs_of(t) \cap vector_store' # docs_of(t) \cap vector_store)
                    => (tasks[t].pc = "run" /\ tasks'[t].pc = "done")]_vars
    /\ <>[](\A t \in 1..Len(tasks) : Ended(t))

\* C36 witness: an index task has stored its chunks at its third attempt, after sleeps
\* of 2 s and 4 s, and another has failed three times
C36_Witness ==
    /\ Len(tasks) = 2
    /\ tasks[1].pc = "failed"
    /\ tasks[1].attempts = MAX_RETRIES
    /\ tasks[2].pc = "done"
    /\ tasks[2].attempts = MAX_RETRIES
    /\ tasks[2].slept = <<2, 4>>
    /\ docs_of(2) # {}
    /\ docs_of(2) \subseteq vector_store

\* C40: delete_document_index makes one vector-store delete attempt; when the attempt
\* fails the task ends at once, nothing is raised, no retry follows, and the vector
\* index is as it was.
C40_DeleteIndexTriedOnce ==
    [][\A t \in 1..Len(tasks) :
        (tasks[t].kind = "delete" /\ tasks'[t] # tasks[t])
        => (/\ tasks[t].pc = "run"
            /\ tasks[t].attempts = 0
            /\ tasks'[t].attempts = 1
            /\ tasks'[t].pc \in {"done", "failed"}
            /\ ~tasks'[t].raised
            /\ tasks'[t].slept = <<>>
            /\ tasks'[t].pc = "failed" => vector_store' = vector_store)]_vars

\* C40 witness: the delete task of a soft-deleted document has failed at its one
\* attempt and a search still returns the document's chunks
C40_Witness ==
    \E t \in 1..Len(tasks) :
        /\ tasks[t].kind = "delete"
        /\ tasks[t].pc = "failed"
        /\ tasks[t].attempts = 1
        /\ ~docs[tasks[t].doc_id].is_active
        /\ Retrievable(tasks[t].doc_id) # {}

\* ----------------------------------------------------- SpecRag, failed calls
\* a cache tier holds the apology
ApologyCached ==
    \/ \E k \in DOMAIN memory_cache : memory_cache[k].value = Dumps(ApologyResult)
    \/ \E k \in DOMAIN remote : remote[k].value = Dumps(ApologyResult)

\* C38: a rag_qa call that fails writes nothing to the cache and no tier ever holds the
\* apology; a call issued after a failed call for the same query is answered by the
\* apology only if it fails itself: when it does not, it returns an answer of the model,
\* from the search and the generation it performs or from an answer cached before.
C38_ApologyNeverCached ==
    /\ [](/\ ~ApologyCached
          /\ \A c \in 1..MaxCalls :
                (Done(c) /\ calls[c].failed = "")
                => (/\ calls[c].result.response \in Answers
                    /\ calls[c].hit \/ (calls[c].searched /\ calls[c].generated)))
    /\ [][\A c \in 1..MaxCalls :
            (calls[c].failed = "" /\ calls'[c].failed # "")
            => UNCHANGED <<memory_cache, remote>>]_vars

\* C38 witness: a call failed, and a call for the same query issued after it found
\* nothing cached, searched, generated and returned an answer of the model
C38_Witness ==
    \E c \in 1..MaxCalls :
        /\ Done(c)
        /\ calls[c].afterFailure
        /\ calls[c].failed = ""
        /\ ~calls[c].hit
        /\ calls[c].searched
        /\ calls[c].generated
        /\ calls[c].result.response \in Answers

\* C39: of two rag_qa calls for the same query that are in flight together, at most one
\* invokes the vector search.
C39_SingleFlight ==
    \A c \in 1..MaxCalls, x \in 1..MaxCalls :
        (/\ c # x
         /\ calls[c].query = calls[x].query
         /\ calls[c].pc \in {"search", "generate"}
         /\ calls[x].pc \in {"search", "generate"})
        => ~(calls[c].searched /\ calls[x].searched)

\* ------------------------------------------------------------------ SpecList
\* C31: a list_documents call that follows a list_documents call which missed the cache
\* and queried the table, with no committed write in between, is served from the cache
\* and does not query the table.
C31_ListReadThrough ==
    (req.op = "list" /\ req.afterMiss) => ~req.queried

\* C32: GET /documents/ completes with status 200.
C32_ListRouteAnswers ==
    req.op = "route_list" => req.status = 200

\* C33: an update or a delete request for an id that get_document does not find is
\* answered 404 and changes neither the table, nor the cache tiers, nor the task queue,
\* nor the vector store.
C33_NotFoundChangesNothing ==
    [][(req' # req /\ req'.op \in {"update", "delete"} /\ req'.status = 404)
        => (/\ ~get_document(req'.id)
            /\ UNCHANGED <<docs, tasks, memory_cache, remote, vector_store>>)]_vars

\* C33 witness: a delete request for a document already soft-deleted was answered 404,
\* and the last task enqueued is still the delete task of the first delete
C33_Witness ==
    /\ req.op = "delete"
    /\ req.status = 404
    /\ req.id \in 1..Len(docs)
    /\ ~docs[req.id].is_active
    /\ Len(tasks) > 0
    /\ tasks[Len(tasks)].kind = "delete"
    /\ \A x \in 1..(Len(tasks) - 1) : tasks[x].kind # "delete"

====
